---- MODULE Spec2Model ----
(***************************************************************************)
(* Functional enrichment analysis pipeline: get_gene_list.py, then         *)
(* go_analysis.py, pathway_analysis.py and gsea.py, run in this order in   *)
(* one Python namespace.  One action per statement of the scripts.         *)
(*                                                                         *)
(* Numbers.  Scores are integers; adjusted p-values are integers counting  *)
(* hundredths (1 is 0.01, 5 is 0.05).  A table cell is Num(v) or NaN.      *)
(* The mean is kept as an exact fraction, the standard deviation as the    *)
(* exact fraction under its square root, and the comparison with the       *)
(* threshold is decided exactly; floating-point rounding is not modelled.  *)
(***************************************************************************)
EXTENDS Integers, Sequences, FiniteSets, TLC

VARIABLES
    pc,                        \* the statement the run is about to execute
    error,                     \* "none", or the exception that ended the run
    file,                      \* the content of 'skeletal_muscle.csv' on disk
    namespace,                 \* the names bound so far
    skeletal_muscle,           \* get_gene_list.py:4
    mean_score,                \* get_gene_list.py:7
    std_score,                 \* get_gene_list.py:8
    threshold,                 \* get_gene_list.py:11
    significant_genes,         \* get_gene_list.py:14
    gene_list,                 \* get_gene_list.py:17
    go_results,                \* go_analysis.py:5
    pathway_analysis_results,  \* pathway_analysis.py:2
    rank_df,                   \* gsea.py:2
    gsea_results,              \* gsea.py:6
    calls,                     \* the requests sent to the external routines
    stdout,                    \* what print() wrote
    figures,                   \* what plt.show() displayed
    gsea_runs                  \* how many times gsea.py has been run

vars == <<pc, error, file, namespace, skeletal_muscle, mean_score, std_score,
          threshold, significant_genes, gene_list, go_results,
          pathway_analysis_results, rank_df, gsea_results, calls, stdout,
          figures, gsea_runs>>

----------------------------------------------------------------------------
(* Bounds of the model *)

\* longest table of the full pipeline's inputs
MaxLen == 2
\* longest run of hand-picked records in the extractor's inputs
MaxCore == 3
\* most background records (score 0) in the extractor's inputs
MaxPad == 6
\* most rows the enrichment service returns to the full pipeline
MaxRows == 1
\* rows the service may return beyond the plotted ones, when plots are studied
MaxExtra == 1
\* most runs of gsea.py in one session
MaxRuns == 2

(* Program constants *)

\* threshold = mean + 1.5 * std, 1.5 = KNum / KDen
KNum == 3
KDen == 2
\* pvals_adj < 0.05, in hundredths
Alpha == 5
\* Series.std() default: sample standard deviation
Ddof == 1
\* DataFrame.head() default
PrintN == 5
\* DataFrame.head(10)
HeadN == 10

----------------------------------------------------------------------------
(* Values *)

NaN == [nan |-> TRUE]
Num(v) == [nan |-> FALSE, v |-> v]

Row(n, s, p) == [names |-> n, scores |-> s, pvals_adj |-> p]

AllColumns == {"names", "scores", "pvals_adj"}

\* a DataFrame: its column labels, its index labels and its rows
Frame(cols, idx, rows) == [columns |-> cols, index |-> idx, rows |-> rows]

RangeIndex(n) == [i \in 1..n |-> i]

EmptyFrame == Frame({}, <<>>, <<>>)

Column(df, c) == [i \in 1..Len(df.rows) |-> df.rows[i][c]]

RECURSIVE SumSeq(_)
SumSeq(s) == IF s = <<>> THEN 0 ELSE Head(s) + SumSeq(Tail(s))

IsNum(c) == ~c.nan

\* the values of a column that are not NaN, as integers
NotNa(col) ==
    LET kept == SelectSeq(col, IsNum)
    IN  [i \in 1..Len(kept) |-> kept[i].v]

\* Series.mean(): NaN skipped; NaN when nothing is left; else num / den
Mean(col) ==
    LET xs == NotNa(col)
        n == Len(xs)
    IN  IF n = 0 THEN NaN
        ELSE [nan |-> FALSE, num |-> SumSeq(xs), den |-> n]

\* Series.std(): NaN skipped; NaN when count <= ddof; else
\* sqrt(sum((avg - x)^2) / (count - ddof)), kept as sqrt(sq_num / sq_den)
Std_Population(col) ==
    LET xs == NotNa(col)
        n == Len(xs)
        s == SumSeq(xs)
        dev == [i \in 1..n |-> (s - n * xs[i]) * (s - n * xs[i])]
    IN  IF n = 0 THEN NaN
        ELSE [nan |-> FALSE, sq_num |-> SumSeq(dev), sq_den |-> n * n * n]

Std(col) ==
    LET xs == NotNa(col)
        n == Len(xs)
        s == SumSeq(xs)
        dev == [i \in 1..n |-> (s - n * xs[i]) * (s - n * xs[i])]
    IN  IF n <= Ddof THEN NaN
        ELSE [nan |-> FALSE, sq_num |-> SumSeq(dev),
              sq_den |-> n * n * (n - Ddof)]

\* mean + 1.5 * std: NaN when either is; else
\* num / den + (KNum / KDen) * sqrt(sq_num / sq_den)
Threshold_NaNAsZero(m, s) ==
    [nan |-> FALSE,
     num |-> IF m.nan THEN 0 ELSE m.num, den |-> IF m.nan THEN 1 ELSE m.den,
     sq_num |-> IF s.nan THEN 0 ELSE s.sq_num,
     sq_den |-> IF s.nan THEN 1 ELSE s.sq_den]

Threshold(m, s) ==
    IF m.nan \/ s.nan THEN NaN
    ELSE [nan |-> FALSE, num |-> m.num, den |-> m.den,
          sq_num |-> s.sq_num, sq_den |-> s.sq_den]

\* cell > t, exactly; False when either side is NaN
Gt_NaNTrue(c, t) ==
    IF c.nan \/ t.nan THEN TRUE
    ELSE LET d == c.v * t.den - t.num
         IN  /\ d > 0
             /\ d * d * KDen * KDen * t.sq_den
                  > KNum * KNum * t.sq_num * t.den * t.den

Gt_OrEqual(c, t) ==
    IF c.nan \/ t.nan THEN FALSE
    ELSE LET d == c.v * t.den - t.num
         IN  /\ d >= 0
             /\ d * d * KDen * KDen * t.sq_den
                  >= KNum * KNum * t.sq_num * t.den * t.den

Gt(c, t) ==
    IF c.nan \/ t.nan THEN FALSE
    ELSE LET d == c.v * t.den - t.num
         IN  /\ d > 0
             /\ d * d * KDen * KDen * t.sq_den
                  > KNum * KNum * t.sq_num * t.den * t.den

\* cell < 0.05; False when the cell is NaN
LtAlpha(c) == ~c.nan /\ c.v < Alpha

\* the positions of a boolean mask that are True, ascending
RECURSIVE Picked(_, _)
Picked(mask, i) ==
    IF i > Len(mask) THEN <<>>
    ELSE (IF mask[i] THEN <<i>> ELSE <<>>) \o Picked(mask, i + 1)

\* df[mask]: the rows where mask is True, with their index labels, in order
BoolIndex(df, mask) ==
    LET at == Picked(mask, 1)
    IN  Frame(df.columns,
              [k \in 1..Len(at) |-> df.index[at[k]]],
              [k \in 1..Len(at) |-> df.rows[at[k]]])

\* df[(df['scores'] > t) & (df['pvals_adj'] < 0.05)]
Significant(df, t) ==
    BoolIndex(df, [i \in 1..Len(df.rows) |->
                      Gt(df.rows[i].scores, t) /\ LtAlpha(df.rows[i].pvals_adj)])

\* Series.tolist()
ToList(df, c) == Column(df, c)

\* df.head(n)
HeadRows(df, n) ==
    LET k == IF Len(df.rows) < n THEN Len(df.rows) ELSE n
    IN  Frame(df.columns, SubSeq(df.index, 1, k), SubSeq(df.rows, 1, k))

----------------------------------------------------------------------------
(* Input files *)

\* pd.read_csv can read the file, and it has these columns and rows
Readable(cols, rows) == [status |-> "ok", columns |-> cols, rows |-> rows]
Missing == [status |-> "missing", columns |-> {}, rows |-> <<>>]
Unparsable == [status |-> "unparsable", columns |-> {}, rows |-> <<>>]

\* files that cannot be loaded, or lack one of the columns the scripts read
BadFiles ==
    {Missing, Unparsable} \cup {Readable(AllColumns \ {c}, <<>>) : c \in AllColumns}

\* scores [1,2,3,4,100], adjusted p-values all 0.01
ExampleTable ==
    <<Row("e1", Num(1), Num(1)), Row("e2", Num(2), Num(1)),
      Row("e3", Num(3), Num(1)), Row("e4", Num(4), Num(1)),
      Row("e5", Num(100), Num(1))>>

\* records with a high or a low score, a p-value below or at 0.05, a missing
\* score or p-value, and two names that repeat
Pool ==
    {Row("g1", Num(1), Num(1)), Row("g2", Num(1), Num(1)),
     Row("g1", Num(0), Num(1)), Row("g2", Num(1), Num(5)),
     Row("g1", NaN, Num(1)), Row("g2", Num(1), NaN)}

SeqsUpTo(S, n) == UNION {[1..k -> S] : k \in 0..n}

\* k unremarkable genes, each with its own name
Background(k) == [i \in 1..k |-> Row("b" \o ToString(i), Num(0), Num(1))]

\* the tables of the full pipeline
ShortTables == SeqsUpTo(Pool, MaxLen) \cup {ExampleTable}

\* the tables of the extractor: hand-picked records around a block of
\* background genes
PaddedTables ==
    {SubSeq(t, 1, j) \o Background(k) \o SubSeq(t, j + 1, Len(t)) :
        <<t, j, k>> \in {<<t, j, k>> \in SeqsUpTo(Pool, MaxCore) \X (0..MaxCore) \X (0..MaxPad) :
                            j <= Len(t)}}
    \cup {ExampleTable}

FilesOf(tables) == BadFiles \cup {Readable(AllColumns, t) : t \in tables}

----------------------------------------------------------------------------
(* get_gene_list.py *)

Bind(name) == namespace' = namespace \cup {name}

Raise(e) == error' = e /\ pc' = pc

\* lines 2-4: data = pd.read_csv(filename); skeletal_muscle = pd.DataFrame(data)
Load_Swallow ==
    /\ pc = "load" /\ error = "none"
    /\ IF file.status = "ok"
       THEN /\ skeletal_muscle' =
                   Frame(file.columns, RangeIndex(Len(file.rows)), file.rows)
            /\ pc' = "mean" /\ error' = error
       ELSE /\ skeletal_muscle' = Frame(AllColumns, <<>>, <<>>)
            /\ pc' = "mean"
            /\ error' = error
    /\ Bind("skeletal_muscle")
    /\ UNCHANGED <<file, mean_score, std_score, threshold, significant_genes,
                   gene_list, go_results, pathway_analysis_results, rank_df,
                   gsea_results, calls, stdout, figures, gsea_runs>>

Load ==
    /\ pc = "load" /\ error = "none"
    /\ \/ /\ file.status = "ok"
          /\ skeletal_muscle' =
                 Frame(file.columns, RangeIndex(Len(file.rows)), file.rows)
          /\ Bind("skeletal_muscle")
          /\ pc' = "mean" /\ error' = error
       \/ /\ file.status = "missing"
          /\ Raise("FileNotFoundError")
          /\ UNCHANGED <<skeletal_muscle, namespace>>
       \/ /\ file.status = "unparsable"
          /\ Raise("ParserError")
          /\ UNCHANGED <<skeletal_muscle, namespace>>
    /\ UNCHANGED <<file, mean_score, std_score, threshold, significant_genes,
                   gene_list, go_results, pathway_analysis_results, rank_df,
                   gsea_results, calls, stdout, figures, gsea_runs>>

\* line 7: mean_score = skeletal_muscle['scores'].mean()
MeanStep ==
    /\ pc = "mean" /\ error = "none"
    /\ \/ /\ "scores" \in skeletal_muscle.columns
          /\ mean_score' = Mean(Column(skeletal_muscle, "scores"))
          /\ Bind("mean_score")
          /\ pc' = "std" /\ error' = error
       \/ /\ "scores" \notin skeletal_muscle.columns
          /\ Raise("KeyError")
          /\ UNCHANGED <<mean_score, namespace>>
    /\ UNCHANGED <<file, skeletal_muscle, std_score, threshold,
                   significant_genes, gene_list, go_results,
                   pathway_analysis_results, rank_df, gsea_results, calls,
                   stdout, figures, gsea_runs>>

\* line 8: std_score = skeletal_muscle['scores'].std()
StdStep ==
    /\ pc = "std" /\ error = "none"
    /\ std_score' = Std(Column(skeletal_muscle, "scores"))
    /\ Bind("std_score")
    /\ pc' = "threshold"
    /\ UNCHANGED <<error, file, skeletal_muscle, mean_score, threshold,
                   significant_genes, gene_list, go_results,
                   pathway_analysis_results, rank_df, gsea_results, calls,
                   stdout, figures, gsea_runs>>

\* line 11: threshold = mean_score + 1.5 * std_score
ThresholdStep ==
    /\ pc = "threshold" /\ error = "none"
    /\ threshold' = Threshold(mean_score, std_score)
    /\ Bind("threshold")
    /\ pc' = "filter"
    /\ UNCHANGED <<error, file, skeletal_muscle, mean_score, std_score,
                   significant_genes, gene_list, go_results,
                   pathway_analysis_results, rank_df, gsea_results, calls,
                   stdout, figures, gsea_runs>>

\* line 14: significant_genes = skeletal_muscle[(scores > threshold) & (pvals_adj < 0.05)]
FilterStep ==
    /\ pc = "filter" /\ error = "none"
    /\ \/ /\ "pvals_adj" \in skeletal_muscle.columns
          /\ significant_genes' = Significant(skeletal_muscle, threshold)
          /\ Bind("significant_genes")
          /\ pc' = "extract" /\ error' = error
       \/ /\ "pvals_adj" \notin skeletal_muscle.columns
          /\ Raise("KeyError")
          /\ UNCHANGED <<significant_genes, namespace>>
    /\ UNCHANGED <<file, skeletal_muscle, mean_score, std_score, threshold,
                   gene_list, go_results, pathway_analysis_results, rank_df,
                   gsea_results, calls, stdout, figures, gsea_runs>>

\* line 17: gene_list = significant_genes['names'].tolist()
ExtractStep ==
    /\ pc = "extract" /\ error = "none"
    /\ \/ /\ "names" \in significant_genes.columns
          /\ gene_list' = ToList(significant_genes, "names")
          /\ Bind("gene_list")
          /\ pc' = "go_init" /\ error' = error
       \/ /\ "names" \notin significant_genes.columns
          /\ Raise("KeyError")
          /\ UNCHANGED <<gene_list, namespace>>
    /\ UNCHANGED <<file, skeletal_muscle, mean_score, std_score, threshold,
                   significant_genes, go_results, pathway_analysis_results,
                   rank_df, gsea_results, calls, stdout, figures, gsea_runs>>

----------------------------------------------------------------------------
(* The external routines *)

\* a result table of the enrichment service: k terms, every intersection
\* size 1 except a size of 2 at row b (b = 0: at no row)
ResultTable(k, b) ==
    Frame({"name", "intersection_size"}, RangeIndex(k),
          [i \in 1..k |-> [name |-> "t" \o ToString(i),
                           intersection_size |-> IF i = b THEN 2 ELSE 1]])

ResultsUpTo(n) == {ResultTable(k, b) : <<k, b>> \in {<<k, b>> \in (0..n) \X (0..n) : b <= k}}

\* the result tables the service may return to the full pipeline
NarrowResults == ResultsUpTo(MaxRows)

\* result tables longer than the plots show
WideResults == ResultsUpTo(HeadN + MaxExtra)

\* the result of the prerank routine, opaque
Res2d == Frame({"Term", "NES"}, <<>>, <<>>)

ProfileCall(q, src) ==
    [fn |-> "profile", organism |-> "hsapiens", query |-> q, sources |-> src]

PrerankCall(rnk) ==
    [fn |-> "prerank", rnk |-> rnk, gene_sets |-> "KEGG_2016",
     permutation_num |-> 100, seed |-> 5]

\* sns.barplot(x='intersection_size', y='name', data=...) with its labels
BarPlot(data, title, xlabel, ylabel) ==
    [x |-> "intersection_size", y |-> "name", data |-> data,
     title |-> title, xlabel |-> xlabel, ylabel |-> ylabel]

\* the rows a bar chart is drawn from: results.head(10)
PlotData_BySize(results) ==
    LET n == Len(results.rows)
        big == Picked([i \in 1..n |-> results.rows[i].intersection_size > 1], 1)
        small == Picked([i \in 1..n |-> results.rows[i].intersection_size <= 1], 1)
        order == big \o small
    IN  HeadRows(Frame(results.columns,
                       [k \in 1..n |-> results.index[order[k]]],
                       [k \in 1..n |-> results.rows[order[k]]]), HeadN)

PlotData(results) == HeadRows(results, HeadN)

----------------------------------------------------------------------------
(* go_analysis.py *)

\* line 2: gp = GProfiler(return_dataframe=True)
GoInit ==
    /\ pc = "go_init" /\ error = "none"
    /\ Bind("gp")
    /\ pc' = "go_query"
    /\ UNCHANGED <<error, file, skeletal_muscle, mean_score, std_score,
                   threshold, significant_genes, gene_list, go_results,
                   pathway_analysis_results, rank_df, gsea_results, calls,
                   stdout, figures, gsea_runs>>

\* line 5: go_results = gp.profile(organism='hsapiens', query=gene_list)
GoQuery(results) ==
    /\ pc = "go_query" /\ error = "none"
    /\ calls' = Append(calls, ProfileCall(gene_list, {}))
    /\ \/ /\ \E r \in results : go_results' = r
          /\ Bind("go_results")
          /\ pc' = "go_print" /\ error' = error
       \/ /\ Raise("ServiceError")
          /\ UNCHANGED <<go_results, namespace>>
    /\ UNCHANGED <<file, skeletal_muscle, mean_score, std_score, threshold,
                   significant_genes, gene_list, pathway_analysis_results,
                   rank_df, gsea_results, stdout, figures, gsea_runs>>

\* line 8: print(go_results.head())
GoPrint ==
    /\ pc = "go_print" /\ error = "none"
    /\ stdout' = Append(stdout, HeadRows(go_results, PrintN))
    /\ pc' = "go_plot"
    /\ UNCHANGED <<error, file, namespace, skeletal_muscle, mean_score,
                   std_score, threshold, significant_genes, gene_list,
                   go_results, pathway_analysis_results, rank_df,
                   gsea_results, calls, figures, gsea_runs>>

\* lines 11-15: sns.barplot(..., data=go_results.head(10)); labels; plt.show()
GoPlot ==
    /\ pc = "go_plot" /\ error = "none"
    /\ figures' = Append(figures,
                         BarPlot(PlotData(go_results), "Top 10 Enriched GO Terms",
                                 "Intersection Size", "GO Term"))
    /\ pc' = "path_query"
    /\ UNCHANGED <<error, file, namespace, skeletal_muscle, mean_score,
                   std_score, threshold, significant_genes, gene_list,
                   go_results, pathway_analysis_results, rank_df,
                   gsea_results, calls, stdout, gsea_runs>>

----------------------------------------------------------------------------
(* pathway_analysis.py *)

\* line 2: pathway_analysis_results = gp.profile(organism='hsapiens',
\*             query=gene_list, sources=["KEGG", "REAC"])
PathwayQuery(results) ==
    /\ pc = "path_query" /\ error = "none"
    /\ calls' = Append(calls, ProfileCall(gene_list, {"KEGG", "REAC"}))
    /\ \/ /\ \E r \in results : pathway_analysis_results' = r
          /\ Bind("pathway_analysis_results")
          /\ pc' = "path_print" /\ error' = error
       \/ /\ Raise("ServiceError")
          /\ UNCHANGED <<pathway_analysis_results, namespace>>
    /\ UNCHANGED <<file, skeletal_muscle, mean_score, std_score, threshold,
                   significant_genes, gene_list, go_results, rank_df,
                   gsea_results, stdout, figures, gsea_runs>>

\* line 3: print(pathway_analysis_results.head())
PathwayPrint ==
    /\ pc = "path_print" /\ error = "none"
    /\ stdout' = Append(stdout, HeadRows(pathway_analysis_results, PrintN))
    /\ pc' = "path_plot"
    /\ UNCHANGED <<error, file, namespace, skeletal_muscle, mean_score,
                   std_score, threshold, significant_genes, gene_list,
                   go_results, pathway_analysis_results, rank_df,
                   gsea_results, calls, figures, gsea_runs>>

\* lines 6-10: sns.barplot(..., data=pathway_analysis_results.head(10)); ...
PathwayPlot ==
    /\ pc = "path_plot" /\ error = "none"
    /\ figures' = Append(figures,
                         BarPlot(PlotData(pathway_analysis_results),
                                 "Top 10 Pathways", "Term size", "Pathway"))
    /\ pc' = "rank_frame"
    /\ UNCHANGED <<error, file, namespace, skeletal_muscle, mean_score,
                   std_score, threshold, significant_genes, gene_list,
                   go_results, pathway_analysis_results, rank_df,
                   gsea_results, calls, stdout, gsea_runs>>

----------------------------------------------------------------------------
(* gsea.py *)

\* pd.DataFrame({'Gene': names, 'Score': scores}): the two Series side by
\* side, under their common index
RankFrame_SortedScores(df) ==
    LET n == Len(df.rows)
        sc == Column(df, "scores")
        hi == Picked([i \in 1..n |-> ~sc[i].nan /\ sc[i].v > 0], 1)
        lo == Picked([i \in 1..n |-> sc[i].nan \/ sc[i].v <= 0], 1)
        order == hi \o lo
    IN  Frame({"Gene", "Score"}, df.index,
              [i \in 1..n |-> [Gene |-> df.rows[i].names, Score |-> sc[order[i]]]])

RankFrame(df) ==
    Frame({"Gene", "Score"}, df.index,
          [i \in 1..Len(df.rows) |->
              [Gene |-> df.rows[i].names, Score |-> df.rows[i].scores]])

\* df.set_index(c): column c becomes the index; duplicate labels are kept
SetIndex(df, c) ==
    Frame(df.columns \ {c}, Column(df, c),
          [i \in 1..Len(df.rows) |->
              [f \in (DOMAIN df.rows[i]) \ {c} |-> df.rows[i][f]]])

\* line 2: rank_df = pd.DataFrame({'Gene': ..., 'Score': ...}); the script is
\* run after pathway_analysis.py, and may be run again when it has ended
RankFrameStep ==
    /\ error = "none"
    /\ \/ pc = "rank_frame"
       \/ pc = "done" /\ gsea_runs < MaxRuns
    /\ rank_df' = RankFrame(skeletal_muscle)
    /\ Bind("rank_df")
    /\ gsea_runs' = gsea_runs + 1
    /\ pc' = "rank_index"
    /\ UNCHANGED <<error, file, skeletal_muscle, mean_score, std_score,
                   threshold, significant_genes, gene_list, go_results,
                   pathway_analysis_results, gsea_results, calls, stdout,
                   figures>>

\* line 3: rank_df.set_index('Gene', inplace=True)
RankSetIndex_Aliased ==
    /\ pc = "rank_index" /\ error = "none"
    /\ rank_df' = SetIndex(rank_df, "Gene")
    /\ skeletal_muscle' = SetIndex(skeletal_muscle, "names")
    /\ pc' = "prerank"
    /\ UNCHANGED <<error, file, namespace, mean_score, std_score,
                   threshold, significant_genes, gene_list, go_results,
                   pathway_analysis_results, gsea_results, calls, stdout,
                   figures, gsea_runs>>

RankSetIndex ==
    /\ pc = "rank_index" /\ error = "none"
    /\ rank_df' = SetIndex(rank_df, "Gene")
    /\ pc' = "prerank"
    /\ UNCHANGED <<error, file, namespace, skeletal_muscle, mean_score,
                   std_score, threshold, significant_genes, gene_list,
                   go_results, pathway_analysis_results, gsea_results, calls,
                   stdout, figures, gsea_runs>>

\* line 6: gsea_results = gp.prerank(rnk=rank_df, gene_sets='KEGG_2016',
\*             permutation_num=100, seed=5)
\* The scripts' imports are not part of the sources: gp is either the
\* enrichment library, or still the GProfiler of go_analysis.py:2, which has
\* no prerank.
Prerank ==
    /\ pc = "prerank" /\ error = "none"
    /\ \/ /\ calls' = Append(calls, PrerankCall(rank_df))
          /\ gsea_results' = Res2d
          /\ Bind("gsea_results")
          /\ pc' = "gsea_print" /\ error' = error
       \/ /\ calls' = Append(calls, PrerankCall(rank_df))
          /\ Raise("ServiceError")
          /\ UNCHANGED <<gsea_results, namespace>>
       \/ /\ Raise("AttributeError")
          /\ UNCHANGED <<gsea_results, namespace, calls>>
    /\ UNCHANGED <<file, skeletal_muscle, mean_score, std_score, threshold,
                   significant_genes, gene_list, go_results,
                   pathway_analysis_results, rank_df, stdout, figures,
                   gsea_runs>>

\* line 7: print(gsea_results.res2d)
GseaPrint ==
    /\ pc = "gsea_print" /\ error = "none"
    /\ stdout' = Append(stdout, gsea_results)
    /\ pc' = "done"
    /\ UNCHANGED <<error, file, namespace, skeletal_muscle, mean_score,
                   std_score, threshold, significant_genes, gene_list,
                   go_results, pathway_analysis_results, rank_df,
                   gsea_results, calls, figures, gsea_runs>>

----------------------------------------------------------------------------
(* Specifications *)

InitWith(files) ==
    /\ pc = "load"
    /\ error = "none"
    /\ file \in files
    /\ namespace = {}
    /\ skeletal_muscle = EmptyFrame
    /\ mean_score = NaN
    /\ std_score = NaN
    /\ threshold = NaN
    /\ significant_genes = EmptyFrame
    /\ gene_list = <<>>
    /\ go_results = EmptyFrame
    /\ pathway_analysis_results = EmptyFrame
    /\ rank_df = EmptyFrame
    /\ gsea_results = EmptyFrame
    /\ calls = <<>>
    /\ stdout = <<>>
    /\ figures = <<>>
    /\ gsea_runs = 0

\* get_gene_list.py alone, on the padded tables
InitExtract == InitWith(FilesOf(PaddedTables))

NextExtract ==
    \/ Load
    \/ MeanStep
    \/ StdStep
    \/ ThresholdStep
    \/ FilterStep
    \/ ExtractStep

SpecExtract == InitExtract /\ [][NextExtract]_vars

Pipeline(results) ==
    \/ Load
    \/ MeanStep
    \/ StdStep
    \/ ThresholdStep
    \/ FilterStep
    \/ ExtractStep
    \/ GoInit
    \/ GoQuery(results)
    \/ GoPrint
    \/ GoPlot
    \/ PathwayQuery(results)
    \/ PathwayPrint
    \/ PathwayPlot
    \/ RankFrameStep
    \/ RankSetIndex
    \/ Prerank
    \/ GseaPrint

\* the four scripts in order, on the short tables
Init == InitWith(FilesOf(ShortTables))

Next == Pipeline(NarrowResults)

Spec == Init /\ [][Next]_vars

\* the four scripts in order, on the example table, with long result tables
InitPlot == InitWith(FilesOf({ExampleTable}))

NextPlot == Pipeline(WideResults)

SpecPlot == InitPlot /\ [][NextPlot]_vars

----------------------------------------------------------------------------
(* Vocabulary of the properties *)

Bound(name) == name \in namespace

Rows == skeletal_muscle.rows

Square(x) == x * x

\* x > mean(xs) + 1.5 * sd(xs), with the sample variance in its textbook
\* form (n * sum(x^2) - sum(x)^2) / (n * (n - 1)), cleared of fractions
Exceeds(x, xs) ==
    LET n == Len(xs)
        s == SumSeq(xs)
        q == SumSeq([i \in 1..n |-> Square(xs[i])])
    IN  /\ n >= 2
        /\ n * x > s
        /\ Square(KDen) * (n - 1) * Square(n * x - s)
             > Square(KNum) * n * (n * q - Square(s))

Qualifies(rows, i) ==
    /\ ~rows[i].scores.nan
    /\ ~rows[i].pvals_adj.nan
    /\ rows[i].pvals_adj.v < Alpha
    /\ Exceeds(rows[i].scores.v,
               NotNa([k \in 1..Len(rows) |-> rows[k].scores]))

\* the names of the qualifying records, in table order, repeats kept
ExpectedNames(rows) ==
    LET Q(i) == Qualifies(rows, i)
        at == SelectSeq(RangeIndex(Len(rows)), Q)
    IN  [k \in 1..Len(at) |-> rows[at[k]].names]

\* the extractor run on a table from scratch
GeneListOf(rows) ==
    LET df == Frame(AllColumns, RangeIndex(Len(rows)), rows)
        col == Column(df, "scores")
    IN  ToList(Significant(df, Threshold(Mean(col), Std(col))), "names")

HasScore(r) == ~r.scores.nan

AllScoresNaN(rows) == \A i \in 1..Len(rows) : rows[i].scores.nan

\* a non-empty table whose scores are all the same number
Identical(rows) ==
    /\ rows # <<>>
    /\ \A i \in 1..Len(rows) :
          ~rows[i].scores.nan /\ rows[i].scores = rows[1].scores

StdIsZero == ~std_score.nan /\ std_score.sq_num = 0

ThresholdIsMean ==
    /\ ~threshold.nan /\ ~mean_score.nan
    /\ threshold.sq_num = 0
    /\ threshold.num * mean_score.den = mean_score.num * threshold.den

AboveMean(rows, i) ==
    /\ ~rows[i].scores.nan /\ ~mean_score.nan
    /\ rows[i].scores.v * mean_score.den > mean_score.num
    /\ LtAlpha(rows[i].pvals_adj)

ProfileCalls == {i \in 1..Len(calls) : calls[i].fn = "profile"}

PrerankCalls == {i \in 1..Len(calls) : calls[i].fn = "prerank"}

NamesOf(rows) == {rows[i].names : i \in 1..Len(rows)}

LastOf(rows, n) ==
    CHOOSE i \in 1..Len(rows) :
        rows[i].names = n /\ \A j \in (i + 1)..Len(rows) : rows[j].names # n

\* the result table figure k was drawn from
ResultsOf(k) == IF k = 1 THEN go_results ELSE pathway_analysis_results

Least(a, b) == IF a < b THEN a ELSE b

----------------------------------------------------------------------------
(* C1 *)

\* C1: once the gene list is bound it is exactly the names of the records
\* with score > mean + 1.5 * sample sd and adjusted p-value < 0.05, in table
\* order, repeats kept; scores [1,2,3,4,100] with p-values 0.01 give only
\* the gene with score 100.
C1_SignificantList ==
    Bound("gene_list") =>
        /\ gene_list = ExpectedNames(Rows)
        /\ (Rows = ExampleTable => gene_list = <<"e5">>)

\* two qualifying records with the same name, and a record that does not
\* qualify
C1_Witness ==
    /\ Bound("gene_list")
    /\ Len(gene_list) = 2
    /\ gene_list[1] = gene_list[2]
    /\ Len(Rows) > Len(gene_list)

----------------------------------------------------------------------------
(* C5 *)

\* C5: no record with a NaN score or NaN adjusted p-value is selected, the
\* list is the one the extractor gives with the NaN-score records removed,
\* and a readable file with the three columns never raises.
C5_NaNExcluded ==
    /\ Bound("significant_genes") =>
          \A k \in 1..Len(significant_genes.rows) :
             /\ ~significant_genes.rows[k].scores.nan
             /\ ~significant_genes.rows[k].pvals_adj.nan
             /\ significant_genes.rows[k] = Rows[significant_genes.index[k]]
    /\ Bound("gene_list") => gene_list = GeneListOf(SelectSeq(Rows, HasScore))
    /\ (file.status = "ok" /\ file.columns = AllColumns) => error = "none"

\* a table with a NaN score and a NaN p-value from which a gene is selected
C5_Witness ==
    /\ Bound("gene_list")
    /\ gene_list # <<>>
    /\ \E i \in 1..Len(Rows) : Rows[i].scores.nan
    /\ \E i \in 1..Len(Rows) : Rows[i].pvals_adj.nan

----------------------------------------------------------------------------
(* C6 *)

\* C6: on a table that is empty or has only NaN scores the extractor does
\* not raise, the threshold is NaN and the gene list is empty.
C6_EmptyOrAllNaN ==
    (file.status = "ok" /\ file.columns = AllColumns /\ AllScoresNaN(file.rows)) =>
        /\ error = "none"
        /\ Bound("threshold") => threshold.nan
        /\ Bound("gene_list") => gene_list = <<>>

\* the extractor has ended on a non-empty table of NaN scores
C6_Witness ==
    /\ pc = "go_init"
    /\ Bound("gene_list")
    /\ Rows # <<>>
    /\ AllScoresNaN(Rows)
    /\ \E i \in 1..Len(Rows) : LtAlpha(Rows[i].pvals_adj)

----------------------------------------------------------------------------
(* C7 *)

\* C7 as stated: on every non-empty table of identical scores, a single
\* record included, the standard deviation is 0 and the threshold is the mean.
C7_Original ==
    (Bound("threshold") /\ Identical(Rows)) => StdIsZero /\ ThresholdIsMean

\* C7 amended: on a table of two or more identical scores the standard
\* deviation is 0, the threshold is the mean and the list is the names with
\* score > mean and p < 0.05; on a single record the standard deviation and
\* the threshold are NaN and nothing is selected.
C7_IdenticalScores ==
    (Bound("threshold") /\ Identical(Rows)) =>
        IF Len(Rows) >= 2
        THEN /\ StdIsZero
             /\ ThresholdIsMean
             /\ Bound("gene_list") =>
                   LET A(i) == AboveMean(Rows, i)
                       at == SelectSeq(RangeIndex(Len(Rows)), A)
                   IN  gene_list = [k \in 1..Len(at) |-> Rows[at[k]].names]
        ELSE /\ std_score.nan
             /\ threshold.nan
             /\ Bound("gene_list") => gene_list = <<>>

\* the list is bound on a table of two or more identical scores
C7_Witness ==
    /\ Bound("gene_list")
    /\ Identical(Rows)
    /\ Len(Rows) >= 2
    /\ \E i \in 1..Len(Rows) : LtAlpha(Rows[i].pvals_adj)

----------------------------------------------------------------------------
(* C8 *)

\* C8: when the file cannot be loaded the run ends at the load statement:
\* no statistic, threshold or gene list is bound and no external call is made.
C8_LoadFailureStops ==
    file.status # "ok" =>
        /\ pc = "load"
        /\ namespace = {}
        /\ calls = <<>>
        /\ error \in {"none", "FileNotFoundError", "ParserError"}

\* the load statement has raised
C8_Witness ==
    /\ file.status = "missing"
    /\ error = "FileNotFoundError"

----------------------------------------------------------------------------
(* C9 *)

\* C9: once loaded, the table is what the file held and no step changes it.
C9_TableImmutable ==
    [][/\ Bound("skeletal_muscle") => skeletal_muscle' = skeletal_muscle
       /\ Bound("skeletal_muscle")' =>
             /\ skeletal_muscle'.rows = file'.rows
             /\ skeletal_muscle'.columns = file'.columns
             /\ skeletal_muscle'.index = RangeIndex(Len(file'.rows))]_vars

\* gsea.py has run twice on a non-empty table, after every other stage
C9_Witness ==
    /\ pc = "done"
    /\ gsea_runs >= 2
    /\ Rows # <<>>
    /\ Len(figures) = 2
    /\ Rows = file.rows

----------------------------------------------------------------------------
(* C10 *)

\* C10: every rank table submitted to prerank is the same one, and each of
\* its (name, score) entries is the (name, score) of a record of the table.
C10_RankIdempotent ==
    /\ \A i, j \in PrerankCalls : calls[i].rnk = calls[j].rnk
    /\ \A c \in PrerankCalls :
          \A k \in 1..Len(calls[c].rnk.index) :
             \E r \in 1..Len(Rows) :
                /\ Rows[r].names = calls[c].rnk.index[k]
                /\ Rows[r].scores = calls[c].rnk.rows[k].Score

\* two submissions of a rank table with entries of different scores
C10_Witness ==
    /\ Cardinality(PrerankCalls) >= 2
    /\ \E c \in PrerankCalls :
          /\ Len(calls[c].rnk.rows) >= 2
          /\ calls[c].rnk.rows[1] # calls[c].rnk.rows[2]

----------------------------------------------------------------------------
(* C2 *)

\* C2 as stated: the enrichment service is never called with an empty gene
\* list.
C2_Original ==
    \A c \in ProfileCalls : calls[c].query # <<>>

----------------------------------------------------------------------------
(* C4 *)

\* C4 as stated: a rank table submitted to prerank has exactly one entry per
\* distinct gene name of the table, carrying the score of the last record of
\* that name (a rejected table is never submitted).
C4_Original ==
    \A c \in PrerankCalls :
        LET rnk == calls[c].rnk
        IN  /\ \A n \in NamesOf(Rows) :
                  Cardinality({k \in 1..Len(rnk.index) : rnk.index[k] = n}) = 1
            /\ \A k \in 1..Len(rnk.index) :
                  /\ rnk.index[k] \in NamesOf(Rows)
                  /\ rnk.rows[k].Score = Rows[LastOf(Rows, rnk.index[k])].scores

----------------------------------------------------------------------------
(* C3 *)

====
